---- MODULE Spec2Model ----
(***************************************************************************)
(* Model of JoltJS.h: the two collision-layer filters, the object-layer to *)
(* broadphase-layer mapper (BPLayerInterfaceImpl) and the life cycle of    *)
(* the JavaScript-facing driver JoltInterface (construction, Step,         *)
(* destruction) together with the process-wide hooks it touches (Trace,    *)
(* AssertFailed, Factory::sInstance).                                      *)
(*                                                                         *)
(* C++ object life-cycle rules are applied as the language defines them:   *)
(* non-static data members are constructed in declaration order BEFORE the *)
(* constructor body runs, and destroyed in reverse declaration order AFTER *)
(* the destructor body has run.                                            *)
(***************************************************************************)
EXTENDS Integers, Sequences, FiniteSets, TLC

(* ------------------------------ bounds -------------------------------- *)
\* number of JoltInterface objects the host may create
MaxDrivers == 2
\* object-layer values passed to the filters range over 0..MaxLayerValue
MaxLayerValue == 2
\* broadphase-layer values range over 0..MaxBPValue
MaxBPValue == 2
\* Step calls are counted up to MaxSteps; the count then stays at MaxSteps
\* ("MaxSteps or more"), and Step remains callable
MaxSteps == 2
\* bodies the host may create in a world
MaxBodies == 3

Drivers == 1..MaxDrivers
LayerValues == 0..MaxLayerValue
BPValues == 0..MaxBPValue
BodyIds == 1..MaxBodies

(* ------------------------- layer taxonomy ----------------------------- *)
\* enum class Layers
NON_MOVING == 0
MOVING == 1
NUM_LAYERS == 2
\* namespace BroadPhaseLayers
BP_NON_MOVING == 0
BP_MOVING == 1
BP_NUM_LAYERS == 2

ValidLayers == 0..(NUM_LAYERS - 1)

\* markers for "no object here"
NoTable == <<>>
NullFactory == 0

VARIABLES
    assertsEnabled,       \* build flag JPH_ENABLE_ASSERTS
    Trace,                \* process-wide trace hook
    AssertFailed,         \* process-wide assert hook
    sInstance,            \* Factory::sInstance (NullFactory or a factory id)
    factories,            \* Factory objects currently allocated on the heap
    registered,           \* factories on which RegisterTypes() has run
    pc,                   \* per driver: phase and position in ctor / dtor
    mTempAllocator,       \* per driver: member is alive
    mJobSystem,           \* per driver: member is alive
    mObjectToBroadPhase,  \* per driver: the mapper's table (NoTable if no mapper)
    mPhysicsSystem,       \* per driver: "none","constructed","initialized","destroyed"
    ctorLog,              \* per driver: resources in the order they were constructed
    dtorLog,              \* per driver: resources in the order they were torn down
    stepsDone,            \* per driver: number of completed Step calls (counted up to MaxSteps)
    bodies,               \* per driver: object layer of every body created in the world
    simulated,            \* per driver: for every body, the number of Step calls it went through (up to MaxSteps)
    candidates,           \* per driver: ordered body pairs the last Step's broadphase query returned
    tested,               \* per driver: ordered body pairs ever handed to the narrow phase
    contacts,             \* per driver: body pairs for which a contact event was ever registered
    ret                   \* the last call of a query function and what it returned

vars == <<assertsEnabled, Trace, AssertFailed, sInstance, factories, registered,
          pc, mTempAllocator, mJobSystem, mObjectToBroadPhase, mPhysicsSystem,
          ctorLog, dtorLog, stepsDone, bodies, simulated, candidates, tested, contacts, ret>>

hookVars == <<Trace, AssertFailed>>
factoryVars == <<sInstance, factories, registered>>
memberVars == <<mTempAllocator, mJobSystem, mObjectToBroadPhase, mPhysicsSystem>>
worldVars == <<stepsDone, bodies, simulated, candidates, tested, contacts>>

(* --------------------------- pure functions --------------------------- *)
\* result of a call: the boolean returned and whether JPH_ASSERT fired
Result(asserted, value) == [assert |-> asserted, value |-> value]

\* JPH_ASSERT(false) in a default branch: fires only when asserts are compiled in;
\* the function then goes on to "return false"
AssertFalse == Result(assertsEnabled, FALSE)

\* variant: the NON_MOVING case answers "true" (static/static pruning lost)
MyObjectCanCollide_NoStaticPruning(inObject1, inObject2) ==
    CASE inObject1 = NON_MOVING -> Result(FALSE, TRUE)
      [] inObject1 = MOVING     -> Result(FALSE, TRUE)
      [] OTHER                  -> AssertFalse

\* variant: the default branch returns false without JPH_ASSERT
MyObjectCanCollide_NoDefaultAssert(inObject1, inObject2) ==
    CASE inObject1 = NON_MOVING -> Result(FALSE, inObject2 = MOVING)
      [] inObject1 = MOVING     -> Result(FALSE, TRUE)
      [] OTHER                  -> Result(FALSE, FALSE)

\* variant: the NON_MOVING case compares with the wrong layer
MyObjectCanCollide_ComparesNonMoving(inObject1, inObject2) ==
    CASE inObject1 = NON_MOVING -> Result(FALSE, inObject2 = NON_MOVING)
      [] inObject1 = MOVING     -> Result(FALSE, TRUE)
      [] OTHER                  -> AssertFalse

MyObjectCanCollide(inObject1, inObject2) ==
    CASE inObject1 = NON_MOVING -> Result(FALSE, inObject2 = MOVING)
      [] inObject1 = MOVING     -> Result(FALSE, TRUE)
      [] OTHER                  -> AssertFalse

\* variant: the NON_MOVING case compares with the wrong broadphase layer
MyBroadPhaseCanCollide_WrongLayer(inLayer1, inLayer2) ==
    CASE inLayer1 = NON_MOVING -> Result(FALSE, inLayer2 = BP_NON_MOVING)
      [] inLayer1 = MOVING     -> Result(FALSE, TRUE)
      [] OTHER                 -> AssertFalse

MyBroadPhaseCanCollide(inLayer1, inLayer2) ==
    CASE inLayer1 = NON_MOVING -> Result(FALSE, inLayer2 = BP_MOVING)
      [] inLayer1 = MOVING     -> Result(FALSE, TRUE)
      [] OTHER                 -> AssertFalse

\* variant: both table entries are set to BroadPhaseLayers::NON_MOVING
BPLayerInterfaceImpl_AllNonMoving == [l \in ValidLayers |-> BP_NON_MOVING]

\* variant: the two table entries are exchanged
BPLayerInterfaceImpl_Swapped ==
    [l \in ValidLayers |-> IF l = NON_MOVING THEN BP_MOVING ELSE BP_NON_MOVING]

\* BPLayerInterfaceImpl::BPLayerInterfaceImpl(): the table the constructor fills
BPLayerInterfaceImpl ==
    [l \in ValidLayers |-> IF l = NON_MOVING THEN BP_NON_MOVING ELSE BP_MOVING]

GetNumBroadPhaseLayers == BP_NUM_LAYERS

\* GetBroadPhaseLayer on a valid layer: the table lookup
GetBroadPhaseLayer(table, inLayer) == table[inLayer]

\* values GetBroadPhaseLayer may return: the table entry, or, for an index
\* past the end of the array (undefined behaviour), any broadphase value
GetBroadPhaseLayerOutcomes(table, inLayer) ==
    IF inLayer < NUM_LAYERS THEN {GetBroadPhaseLayer(table, inLayer)} ELSE BPValues

(* ------------------- constructor / destructor order ------------------- *)
Stmt(op, what) == [op |-> op, what |-> what]

\* data members in declaration order
MemberOrder == <<"mTempAllocator", "mJobSystem", "mBPLayerInterface", "mPhysicsSystem">>

\* statements of the constructor body, in order
CtorBody == << Stmt("install", "Trace"), Stmt("install", "AssertFailed"),
               Stmt("new", "Factory"), Stmt("call", "RegisterTypes"),
               Stmt("call", "Init") >>

\* statements of the destructor body, in order
DtorBody == << Stmt("delete", "Factory"), Stmt("null", "Factory") >>

Reverse(s) == [k \in 1..Len(s) |-> s[Len(s) + 1 - k]]

\* C++: members are initialised in declaration order, then the body runs
CtorSequence == [k \in 1..Len(MemberOrder) |-> Stmt("construct", MemberOrder[k])] \o CtorBody

\* variant: members destroyed in declaration order
DtorSequence_MembersInDeclarationOrder ==
    DtorBody \o [k \in 1..Len(MemberOrder) |-> Stmt("destroy", MemberOrder[k])]

\* C++: the destructor body runs, then members are destroyed in reverse order
DtorSequence ==
    DtorBody \o [k \in 1..Len(MemberOrder) |-> Stmt("destroy", Reverse(MemberOrder)[k])]

None == Stmt("-", "-")

Current(d) ==
    CASE pc[d].phase = "ctor" -> CtorSequence[pc[d].i]
      [] pc[d].phase = "dtor" -> DtorSequence[pc[d].i]
      [] OTHER                -> None

At(d, op, what) == Current(d) = Stmt(op, what)

\* position after the current statement of d
Advance(d) ==
    LET p == pc[d]
        n == IF p.phase = "ctor" THEN Len(CtorSequence) ELSE Len(DtorSequence)
    IN pc' = [pc EXCEPT ![d] =
                IF p.i < n THEN [phase |-> p.phase, i |-> p.i + 1]
                ELSE [phase |-> IF p.phase = "ctor" THEN "alive" ELSE "dead", i |-> 0]]

\* the host is single threaded: no constructor or destructor is in progress
Quiescent == \A d \in Drivers : pc[d].phase \notin {"ctor", "dtor"}

Alive(d) == pc[d].phase = "alive"

NoRet == [fn |-> "none", d |-> 0, a |-> 0, b |-> 0, assert |-> FALSE, bool |-> FALSE, num |-> 0]

(* ------------------------------- Init --------------------------------- *)
Init ==
    /\ assertsEnabled \in BOOLEAN
    /\ Trace = "default"
    /\ AssertFailed = "default"
    /\ sInstance = NullFactory
    /\ factories = {}
    /\ registered = {}
    /\ pc = [d \in Drivers |-> [phase |-> "none", i |-> 0]]
    /\ mTempAllocator = [d \in Drivers |-> FALSE]
    /\ mJobSystem = [d \in Drivers |-> FALSE]
    /\ mObjectToBroadPhase = [d \in Drivers |-> NoTable]
    /\ mPhysicsSystem = [d \in Drivers |-> "none"]
    /\ ctorLog = [d \in Drivers |-> <<>>]
    /\ dtorLog = [d \in Drivers |-> <<>>]
    /\ stepsDone = [d \in Drivers |-> 0]
    /\ bodies = [d \in Drivers |-> <<>>]
    /\ simulated = [d \in Drivers |-> <<>>]
    /\ candidates = [d \in Drivers |-> {}]
    /\ tested = [d \in Drivers |-> {}]
    /\ contacts = [d \in Drivers |-> {}]
    /\ ret = NoRet

(* --------------------- JoltInterface construction --------------------- *)
\* the host evaluates "new JoltInterface()"
New(d) ==
    /\ Quiescent
    /\ pc[d].phase = "none"
    /\ pc' = [pc EXCEPT ![d] = [phase |-> "ctor", i |-> 1]]
    /\ UNCHANGED <<assertsEnabled, hookVars, factoryVars, memberVars,
                   ctorLog, dtorLog, worldVars, ret>>

Logged(log, d, what) == [log EXCEPT ![d] = Append(@, what)]

\* TempAllocatorImpl mTempAllocator { 10 * 1024 * 1024 }
ConstructTempAllocator(d) ==
    /\ At(d, "construct", "mTempAllocator")
    /\ mTempAllocator' = [mTempAllocator EXCEPT ![d] = TRUE]
    /\ ctorLog' = Logged(ctorLog, d, "mTempAllocator")
    /\ Advance(d)
    /\ UNCHANGED <<assertsEnabled, hookVars, factoryVars, mJobSystem,
                   mObjectToBroadPhase, mPhysicsSystem, dtorLog, worldVars, ret>>

\* JobSystemThreadPool mJobSystem { ... }
ConstructJobSystem(d) ==
    /\ At(d, "construct", "mJobSystem")
    /\ mJobSystem' = [mJobSystem EXCEPT ![d] = TRUE]
    /\ ctorLog' = Logged(ctorLog, d, "mJobSystem")
    /\ Advance(d)
    /\ UNCHANGED <<assertsEnabled, hookVars, factoryVars, mTempAllocator,
                   mObjectToBroadPhase, mPhysicsSystem, dtorLog, worldVars, ret>>

\* BPLayerInterfaceImpl mBPLayerInterface: its constructor fills the table
ConstructBPLayerInterface(d) ==
    /\ At(d, "construct", "mBPLayerInterface")
    /\ mObjectToBroadPhase' = [mObjectToBroadPhase EXCEPT ![d] = BPLayerInterfaceImpl]
    /\ ctorLog' = Logged(ctorLog, d, "mBPLayerInterface")
    /\ Advance(d)
    /\ UNCHANGED <<assertsEnabled, hookVars, factoryVars, mTempAllocator,
                   mJobSystem, mPhysicsSystem, dtorLog, worldVars, ret>>

\* PhysicsSystem mPhysicsSystem: default constructed, not yet initialised
ConstructPhysicsSystem(d) ==
    /\ At(d, "construct", "mPhysicsSystem")
    /\ mPhysicsSystem' = [mPhysicsSystem EXCEPT ![d] = "constructed"]
    /\ ctorLog' = Logged(ctorLog, d, "mPhysicsSystem")
    /\ Advance(d)
    /\ UNCHANGED <<assertsEnabled, hookVars, factoryVars, mTempAllocator,
                   mJobSystem, mObjectToBroadPhase, dtorLog, worldVars, ret>>

\* Trace = TraceImpl;
InstallTrace(d) ==
    /\ At(d, "install", "Trace")
    /\ Trace' = "TraceImpl"
    /\ Advance(d)
    /\ UNCHANGED <<assertsEnabled, AssertFailed, factoryVars, memberVars,
                   ctorLog, dtorLog, worldVars, ret>>

\* JPH_IF_ENABLE_ASSERTS(AssertFailed = AssertFailedImpl;)
InstallAssertFailed(d) ==
    /\ At(d, "install", "AssertFailed")
    /\ AssertFailed' = IF assertsEnabled THEN "AssertFailedImpl" ELSE AssertFailed
    /\ Advance(d)
    /\ UNCHANGED <<assertsEnabled, Trace, factoryVars, memberVars,
                   ctorLog, dtorLog, worldVars, ret>>

\* Factory::sInstance = new Factory();  the old pointer value is overwritten
CreateFactory(d) ==
    /\ At(d, "new", "Factory")
    /\ factories' = factories \cup {d}
    /\ sInstance' = d
    /\ ctorLog' = Logged(ctorLog, d, "Factory")
    /\ Advance(d)
    /\ UNCHANGED <<assertsEnabled, hookVars, registered, memberVars,
                   dtorLog, worldVars, ret>>

\* RegisterTypes(): registers the types with the factory sInstance points to
RegisterTypes(d) ==
    /\ At(d, "call", "RegisterTypes")
    /\ registered' = registered \cup {sInstance}
    /\ Advance(d)
    /\ UNCHANGED <<assertsEnabled, hookVars, sInstance, factories, memberVars,
                   ctorLog, dtorLog, worldVars, ret>>

\* mPhysicsSystem.Init(..., mBPLayerInterface, MyBroadPhaseCanCollide, MyObjectCanCollide)
InitPhysicsSystem(d) ==
    /\ At(d, "call", "Init")
    /\ mPhysicsSystem' = [mPhysicsSystem EXCEPT ![d] = "initialized"]
    /\ Advance(d)
    /\ UNCHANGED <<assertsEnabled, hookVars, factoryVars, mTempAllocator,
                   mJobSystem, mObjectToBroadPhase, ctorLog, dtorLog, worldVars, ret>>

(* --------------------- JoltInterface destruction ---------------------- *)
\* the host destroys the driver
Destroy(d) ==
    /\ Quiescent
    /\ Alive(d)
    /\ pc' = [pc EXCEPT ![d] = [phase |-> "dtor", i |-> 1]]
    /\ UNCHANGED <<assertsEnabled, hookVars, factoryVars, memberVars,
                   ctorLog, dtorLog, worldVars, ret>>

\* delete Factory::sInstance;  deleting a null pointer does nothing: no
\* Factory is torn down then, and nothing is logged
DeleteFactory(d) ==
    /\ At(d, "delete", "Factory")
    /\ factories' = factories \ {sInstance}
    /\ registered' = registered \ {sInstance}
    /\ dtorLog' = IF sInstance # NullFactory THEN Logged(dtorLog, d, "Factory") ELSE dtorLog
    /\ Advance(d)
    /\ UNCHANGED <<assertsEnabled, hookVars, sInstance, memberVars,
                   ctorLog, worldVars, ret>>

\* Factory::sInstance = nullptr;
NullFactoryPointer(d) ==
    /\ At(d, "null", "Factory")
    /\ sInstance' = NullFactory
    /\ Advance(d)
    /\ UNCHANGED <<assertsEnabled, hookVars, factories, registered, memberVars,
                   ctorLog, dtorLog, worldVars, ret>>

DestroyPhysicsSystem(d) ==
    /\ At(d, "destroy", "mPhysicsSystem")
    /\ mPhysicsSystem' = [mPhysicsSystem EXCEPT ![d] = "destroyed"]
    /\ bodies' = [bodies EXCEPT ![d] = <<>>]
    /\ stepsDone' = [stepsDone EXCEPT ![d] = 0]
    /\ simulated' = [simulated EXCEPT ![d] = <<>>]
    /\ candidates' = [candidates EXCEPT ![d] = {}]
    /\ tested' = [tested EXCEPT ![d] = {}]
    /\ contacts' = [contacts EXCEPT ![d] = {}]
    /\ dtorLog' = Logged(dtorLog, d, "mPhysicsSystem")
    /\ Advance(d)
    /\ UNCHANGED <<assertsEnabled, hookVars, factoryVars, mTempAllocator,
                   mJobSystem, mObjectToBroadPhase, ctorLog, ret>>

DestroyBPLayerInterface(d) ==
    /\ At(d, "destroy", "mBPLayerInterface")
    /\ mObjectToBroadPhase' = [mObjectToBroadPhase EXCEPT ![d] = NoTable]
    /\ dtorLog' = Logged(dtorLog, d, "mBPLayerInterface")
    /\ Advance(d)
    /\ UNCHANGED <<assertsEnabled, hookVars, factoryVars, mTempAllocator,
                   mJobSystem, mPhysicsSystem, ctorLog, worldVars, ret>>

DestroyJobSystem(d) ==
    /\ At(d, "destroy", "mJobSystem")
    /\ mJobSystem' = [mJobSystem EXCEPT ![d] = FALSE]
    /\ dtorLog' = Logged(dtorLog, d, "mJobSystem")
    /\ Advance(d)
    /\ UNCHANGED <<assertsEnabled, hookVars, factoryVars, mTempAllocator,
                   mObjectToBroadPhase, mPhysicsSystem, ctorLog, worldVars, ret>>

DestroyTempAllocator(d) ==
    /\ At(d, "destroy", "mTempAllocator")
    /\ mTempAllocator' = [mTempAllocator EXCEPT ![d] = FALSE]
    /\ dtorLog' = Logged(dtorLog, d, "mTempAllocator")
    /\ Advance(d)
    /\ UNCHANGED <<assertsEnabled, hookVars, factoryVars, mJobSystem,
                   mObjectToBroadPhase, mPhysicsSystem, ctorLog, worldVars, ret>>

(* ----------------------- calls of the queries ------------------------- *)
Returned(fn, d, a, b, asserted, bool, num) ==
    [fn |-> fn, d |-> d, a |-> a, b |-> b, assert |-> asserted, bool |-> bool, num |-> num]

CallMyObjectCanCollide(inObject1, inObject2) ==
    /\ Quiescent
    /\ LET r == MyObjectCanCollide(inObject1, inObject2)
       IN ret' = Returned("MyObjectCanCollide", 0, inObject1, inObject2, r.assert, r.value, 0)
    /\ UNCHANGED <<assertsEnabled, hookVars, factoryVars, pc, memberVars,
                   ctorLog, dtorLog, worldVars>>

CallMyBroadPhaseCanCollide(inLayer1, inLayer2) ==
    /\ Quiescent
    /\ LET r == MyBroadPhaseCanCollide(inLayer1, inLayer2)
       IN ret' = Returned("MyBroadPhaseCanCollide", 0, inLayer1, inLayer2, r.assert, r.value, 0)
    /\ UNCHANGED <<assertsEnabled, hookVars, factoryVars, pc, memberVars,
                   ctorLog, dtorLog, worldVars>>

\* JPH_ASSERT(inLayer < NUM_LAYERS); return mObjectToBroadPhase[inLayer];
CallGetBroadPhaseLayer(d, inLayer) ==
    /\ Quiescent
    /\ Alive(d)
    /\ \E v \in GetBroadPhaseLayerOutcomes(mObjectToBroadPhase[d], inLayer) :
          ret' = Returned("GetBroadPhaseLayer", d, inLayer, 0,
                          assertsEnabled /\ ~(inLayer < NUM_LAYERS), FALSE, v)
    /\ UNCHANGED <<assertsEnabled, hookVars, factoryVars, pc, memberVars,
                   ctorLog, dtorLog, worldVars>>

CallGetNumBroadPhaseLayers(d) ==
    /\ Quiescent
    /\ Alive(d)
    /\ ret' = Returned("GetNumBroadPhaseLayers", d, 0, 0, FALSE, FALSE, GetNumBroadPhaseLayers)
    /\ UNCHANGED <<assertsEnabled, hookVars, factoryVars, pc, memberVars,
                   ctorLog, dtorLog, worldVars>>

\* PhysicsSystem *GetPhysicsSystem(): a handle to the world of driver d
GetPhysicsSystem(d) ==
    /\ Quiescent
    /\ Alive(d)
    /\ ret' = Returned("GetPhysicsSystem", d, 0, 0, FALSE, FALSE, d)
    /\ UNCHANGED <<assertsEnabled, hookVars, factoryVars, pc, memberVars,
                   ctorLog, dtorLog, worldVars>>

(* ------------------------------ the world ----------------------------- *)
\* the host creates a body through the handle returned by GetPhysicsSystem
CreateBody(d, b, inLayer) ==
    /\ Quiescent
    /\ Alive(d)
    /\ b \notin DOMAIN bodies[d]
    /\ bodies' = [bodies EXCEPT ![d] = (b :> inLayer) @@ @]
    /\ simulated' = [simulated EXCEPT ![d] = (b :> 0) @@ @]
    /\ UNCHANGED <<assertsEnabled, hookVars, factoryVars, pc, memberVars,
                   ctorLog, dtorLog, stepsDone, candidates, tested, contacts, ret>>

\* The world consults what it was initialised with.  The broadphase query of
\* body b1 visits the tree of a broadphase layer only if the coarse filter
\* admits that layer for b1's object layer; b2 is stored in the tree the
\* mapper assigns to its object layer.
BroadPhaseAdmits(d, b1, b2) ==
    MyBroadPhaseCanCollide(bodies[d][b1],
        GetBroadPhaseLayer(mObjectToBroadPhase[d], bodies[d][b2])).value

\* every body found by the broadphase query is then put to the fine filter
ObjectLayersAdmit(d, b1, b2) ==
    MyObjectCanCollide(bodies[d][b1], bodies[d][b2]).value

BodyPairs(d) == {p \in (DOMAIN bodies[d]) \X (DOMAIN bodies[d]) : p[1] # p[2]}

BroadPhaseQuery(d) == {p \in BodyPairs(d) : BroadPhaseAdmits(d, p[1], p[2])}

FindCollidingPairs(d) == {p \in BroadPhaseQuery(d) : ObjectLayersAdmit(d, p[1], p[2])}

CountStep(n) == IF n < MaxSteps THEN n + 1 ELSE MaxSteps

\* mPhysicsSystem.Update(...): what one update does to the world of d.  The
\* broadphase query and the filtering of its result decide which pairs go to
\* the narrow phase.  Whether two tested bodies overlap is not decided here:
\* any subset of the tested pairs may register a contact event.
Update(d) ==
    /\ stepsDone' = [stepsDone EXCEPT ![d] = CountStep(@)]
    /\ simulated' = [simulated EXCEPT ![d] = [b \in DOMAIN @ |-> CountStep(@[b])]]
    /\ candidates' = [candidates EXCEPT ![d] = BroadPhaseQuery(d)]
    /\ tested' = [tested EXCEPT ![d] = @ \cup FindCollidingPairs(d)]
    /\ \E c \in SUBSET {{p[1], p[2]} : p \in FindCollidingPairs(d)} :
          contacts' = [contacts EXCEPT ![d] = @ \cup c]
    /\ UNCHANGED bodies

\* variant: the step also writes the mapper's table
Step_RewritesTable(d) ==
    /\ Quiescent
    /\ Alive(d)
    /\ Update(d)
    /\ mObjectToBroadPhase' = [mObjectToBroadPhase EXCEPT ![d] = [l \in ValidLayers |-> BP_MOVING]]
    /\ UNCHANGED <<assertsEnabled, hookVars, factoryVars, pc, mTempAllocator,
                   mJobSystem, mPhysicsSystem, ctorLog, dtorLog, ret>>

\* void Step(inDeltaTime, inCollisionSteps, inIntegrationSubSteps): forwards
\* its arguments to mPhysicsSystem.Update with the driver's own arena and job
\* system, and touches nothing else.  It may be called any number of times.
Step(d) ==
    /\ Quiescent
    /\ Alive(d)
    /\ Update(d)
    /\ UNCHANGED <<assertsEnabled, hookVars, factoryVars, pc, memberVars,
                   ctorLog, dtorLog, ret>>

(* --------------------------- specifications --------------------------- *)
Next ==
    \/ \E d \in Drivers : New(d)
    \/ \E d \in Drivers : ConstructTempAllocator(d)
    \/ \E d \in Drivers : ConstructJobSystem(d)
    \/ \E d \in Drivers : ConstructBPLayerInterface(d)
    \/ \E d \in Drivers : ConstructPhysicsSystem(d)
    \/ \E d \in Drivers : InstallTrace(d)
    \/ \E d \in Drivers : InstallAssertFailed(d)
    \/ \E d \in Drivers : CreateFactory(d)
    \/ \E d \in Drivers : RegisterTypes(d)
    \/ \E d \in Drivers : InitPhysicsSystem(d)
    \/ \E d \in Drivers : Destroy(d)
    \/ \E d \in Drivers : DeleteFactory(d)
    \/ \E d \in Drivers : NullFactoryPointer(d)
    \/ \E d \in Drivers : DestroyPhysicsSystem(d)
    \/ \E d \in Drivers : DestroyBPLayerInterface(d)
    \/ \E d \in Drivers : DestroyJobSystem(d)
    \/ \E d \in Drivers : DestroyTempAllocator(d)
    \/ \E a \in LayerValues, b \in LayerValues : CallMyObjectCanCollide(a, b)
    \/ \E a \in LayerValues, b \in BPValues : CallMyBroadPhaseCanCollide(a, b)
    \/ \E d \in Drivers, l \in LayerValues : CallGetBroadPhaseLayer(d, l)
    \/ \E d \in Drivers : CallGetNumBroadPhaseLayers(d)
    \/ \E d \in Drivers : GetPhysicsSystem(d)
    \/ \E d \in Drivers : Step(d)

Spec == Init /\ [][Next]_vars

\* One driver, fully constructed, with an empty world: the state in which the
\* host starts to populate and step the world.
InitWorld ==
    /\ assertsEnabled \in BOOLEAN
    /\ Trace = "TraceImpl"
    /\ AssertFailed = (IF assertsEnabled THEN "AssertFailedImpl" ELSE "default")
    /\ sInstance = 1
    /\ factories = {1}
    /\ registered = {1}
    /\ pc = [d \in Drivers |-> IF d = 1 THEN [phase |-> "alive", i |-> 0]
                                         ELSE [phase |-> "none", i |-> 0]]
    /\ mTempAllocator = [d \in Drivers |-> d = 1]
    /\ mJobSystem = [d \in Drivers |-> d = 1]
    /\ mObjectToBroadPhase = [d \in Drivers |-> IF d = 1 THEN BPLayerInterfaceImpl ELSE NoTable]
    /\ mPhysicsSystem = [d \in Drivers |-> IF d = 1 THEN "initialized" ELSE "none"]
    /\ ctorLog = [d \in Drivers |-> IF d = 1 THEN MemberOrder \o <<"Factory">> ELSE <<>>]
    /\ dtorLog = [d \in Drivers |-> <<>>]
    /\ stepsDone = [d \in Drivers |-> 0]
    /\ bodies = [d \in Drivers |-> <<>>]
    /\ simulated = [d \in Drivers |-> <<>>]
    /\ candidates = [d \in Drivers |-> {}]
    /\ tested = [d \in Drivers |-> {}]
    /\ contacts = [d \in Drivers |-> {}]
    /\ ret = NoRet

NextWorld ==
    \/ \E b \in BodyIds, l \in ValidLayers : CreateBody(1, b, l)
    \/ Step(1)

SpecWorld == InitWorld /\ [][NextWorld]_vars

(* ------------------------------ properties --------------------------- *)
MapperAlive(d) == mObjectToBroadPhase[d] # NoTable

Range(s) == {s[k] : k \in DOMAIN s}

IsPrefix(s, t) == Len(s) <= Len(t) /\ \A k \in 1..Len(s) : s[k] = t[k]

\* C1: every call of MyObjectCanCollide with two valid layers returns false
\* for (NON_MOVING, NON_MOVING) and true as soon as one argument is MOVING,
\* and does so without asserting.
C1_ObjectFilterPolicy ==
    (ret.fn = "MyObjectCanCollide" /\ ret.a \in ValidLayers /\ ret.b \in ValidLayers)
        => /\ ~ret.assert
           /\ ret.bool = (ret.a = MOVING \/ ret.b = MOVING)

C1_Witness ==
    /\ ret.fn = "MyObjectCanCollide"
    /\ ret.a = NON_MOVING /\ ret.b = NON_MOVING
    /\ ret.bool = FALSE

\* C2 as stated, read for a build with assertions compiled in: a call of
\* MyObjectCanCollide with an out-of-set layer in either argument asserts.
C2_AnyOutOfSetArgumentAsserts ==
    (/\ assertsEnabled
     /\ ret.fn = "MyObjectCanCollide"
     /\ (ret.a \notin ValidLayers \/ ret.b \notin ValidLayers))
        => ret.assert

\* C2 amended: MyObjectCanCollide asserts exactly when assertions are compiled
\* in and its FIRST argument is out of the set, and then returns false; the
\* second argument is not validated: with a valid first argument the call
\* returns silently, true for MOVING and (second argument = MOVING) for
\* NON_MOVING, whatever the second argument is.
C2_OnlyFirstArgumentChecked ==
    ret.fn = "MyObjectCanCollide"
        => /\ ret.assert = (assertsEnabled /\ ret.a \notin ValidLayers)
           /\ ret.a \notin ValidLayers => ret.bool = FALSE
           /\ (ret.a \in ValidLayers /\ ret.b \notin ValidLayers) => ret.bool = (ret.a = MOVING)

C2_Witness ==
    /\ assertsEnabled
    /\ ret.fn = "MyObjectCanCollide"
    /\ ret.a = MOVING /\ ret.b \notin ValidLayers
    /\ ~ret.assert /\ ret.bool = TRUE

\* C3: on every constructed mapper and for all valid object layers a and b,
\* the coarse filter applied to a and the broadphase layer of b gives the
\* verdict of the fine filter on (a, b).
C3_CoarseEqualsFine ==
    \A d \in Drivers : MapperAlive(d) =>
        \A a \in ValidLayers, b \in ValidLayers :
            MyBroadPhaseCanCollide(a, GetBroadPhaseLayer(mObjectToBroadPhase[d], b)).value
                = MyObjectCanCollide(a, b).value

C3_Witness ==
    /\ \E d \in Drivers : Alive(d)
         /\ GetBroadPhaseLayer(mObjectToBroadPhase[d], NON_MOVING) = ret.b
    /\ ret.fn = "MyBroadPhaseCanCollide"
    /\ ret.a = NON_MOVING
    /\ ret.bool = FALSE

\* C4: on every constructed mapper GetNumBroadPhaseLayers() is the number of
\* distinct broadphase layers GetBroadPhaseLayer returns over [0, NUM_LAYERS).
C4_NumBroadPhaseLayers ==
    \A d \in Drivers : MapperAlive(d) =>
        GetNumBroadPhaseLayers =
            Cardinality({GetBroadPhaseLayer(mObjectToBroadPhase[d], l) : l \in ValidLayers})

C4_Witness ==
    /\ ret.fn = "GetNumBroadPhaseLayers"
    /\ MapperAlive(ret.d)
    /\ ret.num = Cardinality(Range(mObjectToBroadPhase[ret.d]))

\* C5 as stated: whenever any part of a driver has been constructed (arena,
\* job pool, mapper, world, Factory), the Trace hook and, where assertions
\* are compiled in, the AssertFailed hook are already installed.
C5_SinksInstalledFirst ==
    \A d \in Drivers :
        (\/ mTempAllocator[d] \/ mJobSystem[d] \/ MapperAlive(d)
         \/ mPhysicsSystem[d] # "none" \/ "Factory" \in Range(ctorLog[d]))
        => /\ Trace = "TraceImpl"
           /\ assertsEnabled => AssertFailed = "AssertFailedImpl"

\* C6 as stated: while a driver is being destroyed, the Factory singleton is
\* not yet deleted as long as its world or its job pool is alive.
C6_FactoryDeletedLast ==
    \A d \in Drivers :
        (pc[d].phase = "dtor" /\ "Factory" \in Range(dtorLog[d]))
        => (mPhysicsSystem[d] = "destroyed" /\ ~mJobSystem[d])

\* C6 amended: the destructor body runs first, while world, mapper, job pool
\* and arena of the driver are all still alive: it deletes the Factory that
\* Factory::sInstance points to (none when the pointer is already null) and
\* nulls the pointer.  Only then are the members destroyed: world, mapper,
\* job pool, arena.  The teardown order is the reverse of the construction
\* order, with the Factory FIRST, or without the Factory when the pointer
\* was null.
C6_ReverseOfConstruction ==
    \A d \in Drivers :
        LET full == Reverse(ctorLog[d])
            members == Tail(full)
        IN /\ pc[d].phase \in {"dtor", "dead"} =>
                 /\ Head(full) = "Factory"
                 /\ IsPrefix(dtorLog[d], full) \/ IsPrefix(dtorLog[d], members)
           /\ pc[d].phase = "dead" => dtorLog[d] \in {full, members}
           /\ (pc[d].phase = "dtor" /\ pc[d].i <= Len(DtorBody) + 1) =>
                 /\ mPhysicsSystem[d] = "initialized" /\ MapperAlive(d)
                 /\ mJobSystem[d] /\ mTempAllocator[d]
                 /\ dtorLog[d] \in {<<>>, <<"Factory">>}
           /\ (pc[d].phase = "dtor" /\ pc[d].i > Len(DtorBody)) => sInstance = NullFactory

C6_Witness ==
    \E d \in Drivers :
        /\ pc[d].phase = "dead"
        /\ dtorLog[d] = <<"Factory", "mPhysicsSystem", "mBPLayerInterface",
                          "mJobSystem", "mTempAllocator">>

\* C7 as stated: while some driver is alive exactly one Factory is allocated
\* and Factory::sInstance points to it.
C7_ExactlyOneFactory ==
    (\E d \in Drivers : Alive(d))
        => /\ Cardinality(factories) = 1
           /\ sInstance \in factories

\* C9: whatever number of Step calls a world has been through, and whatever
\* bodies were created in between, two bodies that are both in the NON_MOVING
\* layer are rejected by the coarse filter (through the mapper) and by the
\* fine filter alike, never came out of a broadphase query, were never handed
\* to the narrow phase and never registered a contact event; a world that
\* holds NON_MOVING bodies only has tested no pair and registered no contact.
C9_StaticPairsNeverTested ==
    \A d \in Drivers :
        LET static == {b \in DOMAIN bodies[d] : bodies[d][b] = NON_MOVING}
        IN /\ \A b1 \in static, b2 \in static : b1 # b2 =>
                 /\ ~BroadPhaseAdmits(d, b1, b2)
                 /\ ~ObjectLayersAdmit(d, b1, b2)
                 /\ <<b1, b2>> \notin candidates[d]
                 /\ <<b1, b2>> \notin tested[d]
                 /\ {b1, b2} \notin contacts[d]
           /\ static = DOMAIN bodies[d] => (tested[d] = {} /\ contacts[d] = {})

\* two NON_MOVING bodies, the only bodies of the world, have both been through
\* two Step calls or more
C9_Witness ==
    /\ stepsDone[1] >= 2
    /\ \A b \in DOMAIN bodies[1] : bodies[1][b] = NON_MOVING
    /\ \E b1 \in DOMAIN bodies[1], b2 \in DOMAIN bodies[1] :
          /\ b1 # b2
          /\ simulated[1][b1] >= 2 /\ simulated[1][b2] >= 2
    /\ contacts[1] = {}

\* C10: as long as a driver is alive its mapper's table is the one the
\* constructor filled in, whatever has been called since, and every
\* GetBroadPhaseLayer call on a valid layer returned that table's entry.
C10_TableNeverMutated ==
    /\ \A d \in Drivers : Alive(d) => mObjectToBroadPhase[d] = BPLayerInterfaceImpl
    /\ (ret.fn = "GetBroadPhaseLayer" /\ ret.a \in ValidLayers /\ Alive(ret.d))
          => ret.num = BPLayerInterfaceImpl[ret.a]

C10_Witness ==
    /\ ret.fn = "GetBroadPhaseLayer"
    /\ ret.a = MOVING /\ ret.num = BP_MOVING
    /\ Alive(ret.d)
    /\ stepsDone[ret.d] >= 1

====
